---- MODULE Spec2Model ----
(***************************************************************************)
(* Model of the ESP32 TWAI adapter tNMEA2000_esp32 (NMEA2000_esp32.cpp/.h).  *)
(*                                                                         *)
(* The adapter's own code is modelled statement by statement.  The vendor  *)
(* TWAI driver, FreeRTOS and esp_timer are the environment: each call the  *)
(* adapter makes into them is modelled at its call site by the outcomes    *)
(* the call can have.  ESP_ERROR_CHECK(x) aborts the process when x fails. *)
(* The model is of the build with ESP32_CAN_STATISTICS == 1, in which      *)
(* CAN_init creates and starts the statistics timer.                       *)
(***************************************************************************)
EXTENDS Integers, Sequences, FiniteSets, TLC

\* ------------------------------------------------------------------ bounds
\* adapter instances of the process, and threads that call into them
Instances == {"A", "B"}
Threads == {"t1", "t2"}
\* the thread of the NMEA2000 base library (single caller)
MainThread == "t1"

NoInstance == "null"

\* slots of the driver's transmit queue (g_config.tx_queue_len, scaled down)
TxQueueLen == 2
\* what the caller passes to CANSendFrame
SendIds == {419356416, 167248130}
SendLens == {0, 8, 9}
\* bytes of the data field of twai_message_t
TWAI_FRAME_MAX_DLC == 8
\* CANSendFrame calls that return true in one run
MaxSends == 3
\* calls of Timer_tick in one run
MaxTicks == 1
\* #define CAN_FRAME_HEADER_BITS 52
CAN_FRAME_HEADER_BITS == 52
\* slots of the driver's receive queue (g_config.rx_queue_len, scaled down)
RxQueueLen == 2
\* frames received from the bus in one run
MaxArrivals == 3
\* alerts the driver holds raised between two reads of the alert task,
\* bus-off and bus-recovered apart
MaxPending == 2
\* the callbacks a caller registers; "null" is nullptr
Callbacks == {"null", "cb"}

VARIABLES
    IsOpen,                 \* [Instances -> BOOLEAN]          (h:63)
    CanInUse,               \* static bool                     (cpp:57)
    pNMEA2000_esp32,        \* global instance pointer         (cpp:59)
    alert_task_semaphore,   \* [Instances -> 0..1] binary semaphore (cpp:65)
    twai_state,             \* driver: UNINSTALLED/STOPPED/RUNNING/BUS_OFF/RECOVERING
    aborted,                \* the process was aborted by ESP_ERROR_CHECK
    pc,                     \* [Threads -> position of the caller thread]
    self,                   \* [Threads -> the instance (this) of the call in progress]
    op,                     \* [Threads -> the public operation last called]
    ret,                    \* [Threads -> its return value: "none", "true", "false"]
    task,                   \* [Instances -> position of the alert task created for it]
    nInstall,               \* successful twai_driver_install calls
    nStart,                 \* successful twai_start calls made by CAN_init
    nTaskCreate,            \* xTaskCreatePinnedToCore calls
    nTimerCreate,           \* esp_timer_create calls
    openedTrue,             \* history: instances on which CANOpen has returned true
    atCall,                 \* history: [Threads -> the state CANOpen was called in]
    tx_queue,               \* the driver's transmit queue (g_config.tx_queue_len)
    args,                   \* [Threads -> id, len, wait_sent of the CANSendFrame call]
    message,                \* [Threads -> the local twai_message_t of the call]
    sendHist,               \* history: [Threads -> what the call met inside twai_transmit]
    alerts_enabled,         \* the driver's alert watch-list
    alerts_pending,         \* alerts raised by the driver and not read yet
    rx_queue,               \* the driver's receive queue (g_config.rx_queue_len)
    out,                    \* the caller's id, len and buf that CANGetFrame writes to
    getHist,                \* history: what the last CANGetFrame call met
    arrived,                \* history: the frames the driver has queued, in order
    delivered,              \* history: the <<id, len, payload>> CANGetFrame returned
    idIn,                   \* the identifier passed to canIdToN2k
    idOut,                  \* the prio, pgn, src, dst it wrote
    alerts_callback,        \* alerts_cb_t alerts_callback                (h:85)
    alerts,                 \* [Instances -> uint32_t alerts of its alert task]
    cbLoaded,               \* [Instances -> alerts_callback as the task's test read it]
    iter,                   \* history: [Instances -> what the task did for the alerts read]
    lastRead,               \* history: [Instances -> the kind of the alerts its task read last]
    semGiven,               \* history: [Instances -> xSemaphoreGive calls on its semaphore]
    RxBits,                 \* [Instances -> unsigned int RxBits]              (h:67)
    RxPackets,              \* [Instances -> unsigned int RxPackets]           (h:68)
    TxBits,                 \* [Instances -> unsigned int TxBits]              (h:70)
    TxPackets,              \* [Instances -> unsigned int TxPackets]           (h:71)
    RxBitsPerSeconds,       \* [Instances -> unsigned int RxBitsPerSeconds]    (h:92)
    RxPacketsPerSecond,     \* [Instances -> unsigned int RxPacketsPerSecond]  (h:93)
    TxBitsPerSecond,        \* [Instances -> unsigned int TxBitsPerSecond]     (h:95)
    TxPacketsPerSecond,     \* [Instances -> unsigned int TxPacketsPerSecond]  (h:96)
    acc,                    \* [Threads -> the counter value its += or ++ has loaded]
    tick,                   \* [Instances -> position of the timer callback armed for it]
    statHist,               \* history: successful calls, and raw counts Timer_tick has decayed
    tickIn                  \* history: [Instances -> the fields as the running callback found them]

openVars == <<IsOpen, CanInUse, pNMEA2000_esp32, alert_task_semaphore, semGiven, twai_state,
              aborted, pc, self, op, ret, task, nInstall, nStart, nTaskCreate,
              nTimerCreate, openedTrue, atCall>>

txVars == <<tx_queue, args, message, sendHist>>

drvVars == <<alerts_enabled, alerts_pending>>

rxVars == <<rx_queue, out, getHist, arrived, delivered>>

\* everything CANOpen and CANSendFrame leave alone
idVars == <<idIn, idOut>>

atVars == <<alerts_callback, alerts, cbLoaded, iter, lastRead>>

\* the statistics of the build with ESP32_CAN_STATISTICS == 1
counterVars == <<RxBits, RxPackets, TxBits, TxPackets>>
rateVars == <<RxBitsPerSeconds, RxPacketsPerSecond, TxBitsPerSecond, TxPacketsPerSecond>>
statVars == <<counterVars, rateVars, acc, tick, statHist, tickIn>>

\* what the alert task never writes
callerVars == <<IsOpen, CanInUse, pNMEA2000_esp32, semGiven, pc, self, op, ret, nInstall,
                nStart, nTaskCreate, nTimerCreate, openedTrue, atCall, args,
                message, sendHist, rxVars, idVars, statVars>>

restVars == <<rxVars, idVars, atVars, statVars>>

\* everything CANOpen leaves alone
otherVars == <<txVars, restVars>>

vars == <<openVars, drvVars, otherVars>>

\* the alerts of the driver that the adapter names (h:87-89, cpp:300)
ERROR_ALERTS_TO_WATCH == {"ABOVE_ERR_WARN", "ERR_PASS", "BUS_OFF", "RX_FIFO_OVERRUN"}
DATA_EVENTS_TO_WATCH == {"TX_IDLE", "TX_SUCCESS", "RX_DATA"}
ALERTS_TO_WATCH == ERROR_ALERTS_TO_WATCH \cup DATA_EVENTS_TO_WATCH
TWAI_ALERT_BUS_RECOVERED == "BUS_RECOVERED"

\* what a CANOpen call can change besides its own position and result
OpenEffects == [IsOpen |-> IsOpen, CanInUse |-> CanInUse, p |-> pNMEA2000_esp32,
                nInstall |-> nInstall, nStart |-> nStart,
                nTaskCreate |-> nTaskCreate, nTimerCreate |-> nTimerCreate]

NoArgs == [id |-> 0, len |-> 0, wait_sent |-> FALSE]
NoMessage == [extd |-> 0, identifier |-> 0, data_length_code |-> 0,
              dlc_non_comp |-> 0, data |-> <<>>, written |-> 0]
NoSendHist == [blocked |-> FALSE, full |-> FALSE, running |-> FALSE,
               res |-> "none", sent |-> NoMessage, state |-> "none",
               queued |-> 0, TxBits |-> 0, TxPackets |-> 0]

\* nothing sent, received or decayed yet
NoStatHist == [sendTrue |-> 0, bitsSent |-> 0, getTrue |-> 0, bitsGot |-> 0,
               ticks |-> 0,
               fedTxPackets |-> 0, fedTxBits |-> 0,
               fedRxPackets |-> 0, fedRxBits |-> 0]

NoTickIn == [RxPackets |-> -1, RxPacketsPerSecond |-> -1,
             RxBits |-> -1, RxBitsPerSeconds |-> -1,
             TxPackets |-> -1, TxPacketsPerSecond |-> -1,
             TxBits |-> -1, TxBitsPerSecond |-> -1]

NoFields == [prio |-> -1, pgn |-> -1, src |-> -1, dst |-> -1]

\* the caller's variables before the first CANGetFrame call
CallerOut == [id |-> 0, len |-> 0, buf |-> [k \in 1..TWAI_FRAME_MAX_DLC |-> 238]]
NoGetHist == [before |-> CallerOut, empty |-> FALSE, res |-> "none",
              frame |-> NoMessage]

\* ------------------------------------------------------------ construction
\* tNMEA2000_esp32::tNMEA2000_esp32 for every instance, and the static initialisers
Constructed ==
    /\ IsOpen = [i \in Instances |-> FALSE]
    /\ CanInUse = FALSE
    /\ pNMEA2000_esp32 = NoInstance
    /\ alert_task_semaphore = [i \in Instances |-> 0]
    /\ twai_state = "UNINSTALLED"
    /\ aborted = FALSE
    /\ pc = [t \in Threads |-> "idle"]
    /\ self = [t \in Threads |-> NoInstance]
    /\ op = [t \in Threads |-> "none"]
    /\ ret = [t \in Threads |-> "none"]
    /\ task = [i \in Instances |-> "none"]
    /\ nInstall = 0
    /\ nStart = 0
    /\ nTaskCreate = 0
    /\ nTimerCreate = 0
    /\ openedTrue = {}
    /\ tx_queue = <<>>
    /\ args = [t \in Threads |-> NoArgs]
    /\ message = [t \in Threads |-> NoMessage]
    /\ sendHist = [t \in Threads |-> NoSendHist]
    /\ alerts_enabled = {}
    /\ alerts_pending = {}
    /\ alerts_callback = "null"
    /\ alerts = [i \in Instances |-> {}]
    /\ cbLoaded = [i \in Instances |-> "null"]
    /\ iter = [i \in Instances |-> <<>>]
    /\ lastRead = [i \in Instances |-> "none"]
    /\ semGiven = [i \in Instances |-> 0]
    /\ RxBits = [i \in Instances |-> 0]
    /\ RxPackets = [i \in Instances |-> 0]
    /\ TxBits = [i \in Instances |-> 0]
    /\ TxPackets = [i \in Instances |-> 0]
    /\ RxBitsPerSeconds = [i \in Instances |-> 0]
    /\ RxPacketsPerSecond = [i \in Instances |-> 0]
    /\ TxBitsPerSecond = [i \in Instances |-> 0]
    /\ TxPacketsPerSecond = [i \in Instances |-> 0]
    /\ acc = [t \in Threads |-> 0]
    /\ tick = [i \in Instances |-> "none"]
    /\ statHist = NoStatHist
    /\ tickIn = [i \in Instances |-> NoTickIn]
    /\ rx_queue = <<>>
    /\ out = CallerOut
    /\ getHist = NoGetHist
    /\ arrived = <<>>
    /\ delivered = <<>>
    /\ atCall = [t \in Threads |->
                   [late |-> FALSE, other |-> FALSE,
                    before |-> [IsOpen |-> [i \in Instances |-> FALSE],
                                CanInUse |-> FALSE, p |-> NoInstance,
                                nInstall |-> 0, nStart |-> 0,
                                nTaskCreate |-> 0, nTimerCreate |-> 0]]]

Init == Constructed /\ idIn = 0 /\ idOut = NoFields

\* a thread runs only while the process lives
Running(t) == ~aborted

Goto(t, l) == pc' = [pc EXCEPT ![t] = l]
Return(t, v) == /\ pc' = [pc EXCEPT ![t] = "idle"]
                /\ ret' = [ret EXCEPT ![t] = v]
BoolStr(b) == IF b THEN "true" ELSE "false"

\* ----------------------------------------------------------------- CANOpen
\* a thread calls CANOpen on instance i
CANOpen_Call(t, i) ==
    /\ Running(t) /\ pc[t] = "idle"
    /\ pc' = [pc EXCEPT ![t] = "o71"]
    /\ self' = [self EXCEPT ![t] = i]
    /\ op' = [op EXCEPT ![t] = "open"]
    /\ ret' = [ret EXCEPT ![t] = "none"]
    /\ atCall' = [atCall EXCEPT ![t] =
                    [late |-> i \in openedTrue,
                     other |-> (openedTrue \ {i}) # {},
                     before |-> OpenEffects]]
    /\ UNCHANGED <<IsOpen, CanInUse, pNMEA2000_esp32, alert_task_semaphore, semGiven,
                   twai_state, aborted, task, nInstall, nStart, nTaskCreate,
                   nTimerCreate, openedTrue>>
    /\ UNCHANGED <<drvVars, otherVars>>

\* if (IsOpen) return true;
CANOpen_IsOpenTest_NoTest(t) ==
    /\ Running(t) /\ pc[t] = "o71"
    /\ Goto(t, "o74")
    /\ UNCHANGED <<IsOpen, CanInUse, pNMEA2000_esp32, alert_task_semaphore, semGiven,
                   twai_state, aborted, self, op, ret, task, nInstall, nStart,
                   nTaskCreate, nTimerCreate, openedTrue, atCall>>
    /\ UNCHANGED <<drvVars, otherVars>>

CANOpen_IsOpenTest(t) ==
    /\ Running(t) /\ pc[t] = "o71"
    /\ IF IsOpen[self[t]]
         THEN /\ Return(t, "true")
              /\ openedTrue' = openedTrue \cup {self[t]}
         ELSE /\ Goto(t, "o74")
              /\ UNCHANGED <<ret, openedTrue>>
    /\ UNCHANGED <<IsOpen, CanInUse, pNMEA2000_esp32, alert_task_semaphore, semGiven,
                   twai_state, aborted, self, op, task, nInstall, nStart,
                   nTaskCreate, nTimerCreate, atCall>>
    /\ UNCHANGED <<drvVars, otherVars>>

\* if (CanInUse) return false;
CANOpen_CanInUseTest_OwnFlag(t) ==
    /\ Running(t) /\ pc[t] = "o74"
    /\ IF IsOpen[self[t]]
         THEN Return(t, "false")
         ELSE Goto(t, "o77") /\ UNCHANGED ret
    /\ UNCHANGED <<IsOpen, CanInUse, pNMEA2000_esp32, alert_task_semaphore, semGiven,
                   twai_state, aborted, self, op, task, nInstall, nStart,
                   nTaskCreate, nTimerCreate, openedTrue, atCall>>
    /\ UNCHANGED <<drvVars, otherVars>>

CANOpen_CanInUseTest(t) ==
    /\ Running(t) /\ pc[t] = "o74"
    /\ IF CanInUse
         THEN Return(t, "false")
         ELSE Goto(t, "o77") /\ UNCHANGED ret
    /\ UNCHANGED <<IsOpen, CanInUse, pNMEA2000_esp32, alert_task_semaphore, semGiven,
                   twai_state, aborted, self, op, task, nInstall, nStart,
                   nTaskCreate, nTimerCreate, openedTrue, atCall>>
    /\ UNCHANGED <<drvVars, otherVars>>

\* pNMEA2000_esp32 = this;
CANOpen_SetThis(t) ==
    /\ Running(t) /\ pc[t] = "o77"
    /\ pNMEA2000_esp32' = self[t]
    /\ Goto(t, "o78")
    /\ UNCHANGED <<IsOpen, CanInUse, alert_task_semaphore, semGiven, twai_state, aborted,
                   self, op, ret, task, nInstall, nStart, nTaskCreate,
                   nTimerCreate, openedTrue, atCall>>
    /\ UNCHANGED <<drvVars, otherVars>>

\* IsOpen = true;  CAN_init();
CANOpen_SetIsOpen(t) ==
    /\ Running(t) /\ pc[t] = "o78"
    /\ IsOpen' = [IsOpen EXCEPT ![self[t]] = TRUE]
    /\ Goto(t, "i104")
    /\ UNCHANGED <<CanInUse, pNMEA2000_esp32, alert_task_semaphore, semGiven, twai_state,
                   aborted, self, op, ret, task, nInstall, nStart, nTaskCreate,
                   nTimerCreate, openedTrue, atCall>>
    /\ UNCHANGED <<drvVars, otherVars>>

\* ESP_ERROR_CHECK(twai_driver_install(...)): the driver installs once
\* (ESP_ERR_INVALID_STATE when it is installed already) and may fail for
\* lack of memory; a failure aborts the process.
CAN_init_InstallOk(t) ==
    /\ Running(t) /\ pc[t] = "i104"
    /\ twai_state = "UNINSTALLED"
    /\ twai_state' = "STOPPED"
    /\ nInstall' = nInstall + 1
    /\ Goto(t, "i107")
    /\ UNCHANGED <<IsOpen, CanInUse, pNMEA2000_esp32, alert_task_semaphore, semGiven,
                   aborted, self, op, ret, task, nStart, nTaskCreate,
                   nTimerCreate, openedTrue, atCall>>
    /\ alerts_enabled' = ALERTS_TO_WATCH
    /\ UNCHANGED <<alerts_pending, otherVars>>

CAN_init_InstallFail(t) ==
    /\ Running(t) /\ pc[t] = "i104"
    /\ aborted' = TRUE
    /\ UNCHANGED <<IsOpen, CanInUse, pNMEA2000_esp32, alert_task_semaphore, semGiven,
                   twai_state, pc, self, op, ret, task, nInstall, nStart,
                   nTaskCreate, nTimerCreate, openedTrue, atCall>>
    /\ UNCHANGED <<drvVars, otherVars>>

\* ESP_ERROR_CHECK(twai_start()): succeeds from the stopped state only
CAN_init_Start(t) ==
    /\ Running(t) /\ pc[t] = "i107"
    /\ IF twai_state = "STOPPED"
         THEN /\ twai_state' = "RUNNING"
              /\ nStart' = nStart + 1
              /\ Goto(t, "i110")
              /\ UNCHANGED aborted
         ELSE /\ aborted' = TRUE
              /\ UNCHANGED <<twai_state, nStart, pc>>
    /\ UNCHANGED <<IsOpen, CanInUse, pNMEA2000_esp32, alert_task_semaphore, semGiven,
                   self, op, ret, task, nInstall, nTaskCreate, nTimerCreate,
                   openedTrue, atCall>>
    /\ UNCHANGED <<drvVars, otherVars>>

\* xTaskCreatePinnedToCore(alert_task, ..., this, ...): result ignored
CAN_init_TaskCreate(t) ==
    /\ Running(t) /\ pc[t] = "i110"
    /\ nTaskCreate' = nTaskCreate + 1
    /\ task' = [task EXCEPT ![self[t]] = "a275"]
    /\ Goto(t, "i113")
    /\ UNCHANGED <<IsOpen, CanInUse, pNMEA2000_esp32, alert_task_semaphore, semGiven,
                   twai_state, aborted, self, op, ret, nInstall, nStart,
                   nTimerCreate, openedTrue, atCall>>
    /\ UNCHANGED <<drvVars, otherVars>>

\* xSemaphoreGive(alert_task_semaphore);
CAN_init_SemaphoreGive(t) ==
    /\ Running(t) /\ pc[t] = "i113"
    /\ alert_task_semaphore' = [alert_task_semaphore EXCEPT ![self[t]] = 1]
    /\ semGiven' = [semGiven EXCEPT ![self[t]] = @ + 1]
    /\ Goto(t, "i125")
    /\ UNCHANGED <<IsOpen, CanInUse, pNMEA2000_esp32, twai_state, aborted,
                   self, op, ret, task, nInstall, nStart, nTaskCreate,
                   nTimerCreate, openedTrue, atCall>>
    /\ UNCHANGED <<drvVars, otherVars>>

\* ESP_ERROR_CHECK(esp_timer_create(...)); ESP_ERROR_CHECK(esp_timer_start_periodic(...)):
\* from here on the timer calls Timer_tick(this) once a second
CAN_init_TimerOk(t) ==
    /\ Running(t) /\ pc[t] = "i125"
    /\ nTimerCreate' = nTimerCreate + 1
    /\ tick' = [tick EXCEPT ![self[t]] = "idle"]
    /\ Goto(t, "o81")
    /\ UNCHANGED <<IsOpen, CanInUse, pNMEA2000_esp32, alert_task_semaphore, semGiven,
                   twai_state, aborted, self, op, ret, task, nInstall, nStart,
                   nTaskCreate, openedTrue, atCall>>
    /\ UNCHANGED <<drvVars, txVars, rxVars, idVars, atVars, counterVars, rateVars,
                   acc, statHist, tickIn>>

CAN_init_TimerFail(t) ==
    /\ Running(t) /\ pc[t] = "i125"
    /\ aborted' = TRUE
    /\ UNCHANGED <<IsOpen, CanInUse, pNMEA2000_esp32, alert_task_semaphore, semGiven,
                   twai_state, pc, self, op, ret, task, nInstall, nStart,
                   nTaskCreate, nTimerCreate, openedTrue, atCall>>
    /\ UNCHANGED <<drvVars, otherVars>>

\* CanInUse = IsOpen;
CANOpen_SetCanInUse(t) ==
    /\ Running(t) /\ pc[t] = "o81"
    /\ CanInUse' = IsOpen[self[t]]
    /\ Goto(t, "o83")
    /\ UNCHANGED <<IsOpen, pNMEA2000_esp32, alert_task_semaphore, semGiven, twai_state,
                   aborted, self, op, ret, task, nInstall, nStart, nTaskCreate,
                   nTimerCreate, openedTrue, atCall>>
    /\ UNCHANGED <<drvVars, otherVars>>

\* return IsOpen;
CANOpen_Return(t) ==
    /\ Running(t) /\ pc[t] = "o83"
    /\ Return(t, BoolStr(IsOpen[self[t]]))
    /\ openedTrue' = IF IsOpen[self[t]] THEN openedTrue \cup {self[t]}
                     ELSE openedTrue
    /\ UNCHANGED <<IsOpen, CanInUse, pNMEA2000_esp32, alert_task_semaphore, semGiven,
                   twai_state, aborted, self, op, task, nInstall, nStart,
                   nTaskCreate, nTimerCreate, atCall>>
    /\ UNCHANGED <<drvVars, otherVars>>



\* the twelve steps of CANOpen and of the CAN_init it calls
CANOpen(t) ==
    \/ \E i \in Instances : CANOpen_Call(t, i)
    \/ CANOpen_IsOpenTest(t)
    \/ CANOpen_CanInUseTest(t)
    \/ CANOpen_SetThis(t)
    \/ CANOpen_SetIsOpen(t)
    \/ CAN_init_InstallOk(t)
    \/ CAN_init_InstallFail(t)
    \/ CAN_init_Start(t)
    \/ CAN_init_TaskCreate(t)
    \/ CAN_init_SemaphoreGive(t)
    \/ CAN_init_TimerOk(t)
    \/ CAN_init_TimerFail(t)
    \/ CANOpen_SetCanInUse(t)
    \/ CANOpen_Return(t)

\* ------------------------------------------------------------ CANSendFrame
Min(a, b) == IF a < b THEN a ELSE b

\* byte k (from 1) of the buffer the caller passes: buf[k-1]
CallerBuf(k) == k % 256

\* the n bytes that memcpy(dst, buf, n) reads
BufBytes(n) == [k \in 1..n |-> CallerBuf(k)]

\* the base library calls CANSendFrame on an instance it has opened
CANSendFrame_Call(t, i, id, len, wait_sent) ==
    /\ Running(t) /\ pc[t] = "idle"
    /\ i \in openedTrue
    /\ statHist.sendTrue < MaxSends
    /\ pc' = [pc EXCEPT ![t] = "s139"]
    /\ self' = [self EXCEPT ![t] = i]
    /\ op' = [op EXCEPT ![t] = "send"]
    /\ ret' = [ret EXCEPT ![t] = "none"]
    /\ args' = [args EXCEPT ![t] = [id |-> id, len |-> len, wait_sent |-> wait_sent]]
    /\ message' = [message EXCEPT ![t] = NoMessage]
    /\ sendHist' = [sendHist EXCEPT ![t] =
                      [NoSendHist EXCEPT !.TxBits = TxBits[i],
                                         !.TxPackets = TxPackets[i]]]
    /\ UNCHANGED <<IsOpen, CanInUse, pNMEA2000_esp32, alert_task_semaphore, semGiven,
                   twai_state, aborted, task, nInstall, nStart, nTaskCreate,
                   nTimerCreate, openedTrue, atCall, tx_queue, drvVars, restVars>>

CANSendFrame_Status_Recover(t) ==
    /\ Running(t) /\ pc[t] = "s139"
    /\ sendHist' = [sendHist EXCEPT ![t].state = twai_state]
    /\ IF twai_state # "RUNNING"
         THEN /\ Return(t, "false")
              /\ twai_state' = CASE twai_state = "BUS_OFF" -> "RECOVERING"
                                  [] twai_state = "STOPPED" -> "RUNNING"
                                  [] OTHER -> twai_state
         ELSE Goto(t, "s154") /\ UNCHANGED <<ret, twai_state>>
    /\ UNCHANGED <<IsOpen, CanInUse, pNMEA2000_esp32, alert_task_semaphore, semGiven,
                   aborted, self, op, task, nInstall, nStart,
                   nTaskCreate, nTimerCreate, openedTrue, atCall, tx_queue, args,
                   message, drvVars, restVars>>

\* twai_get_status_info(&status_info); if (status_info.state != TWAI_STATE_RUNNING) return false;
CANSendFrame_Status(t) ==
    /\ Running(t) /\ pc[t] = "s139"
    /\ sendHist' = [sendHist EXCEPT ![t].state = twai_state]
    /\ IF twai_state # "RUNNING"
         THEN Return(t, "false")
         ELSE Goto(t, "s154") /\ UNCHANGED ret
    /\ UNCHANGED <<IsOpen, CanInUse, pNMEA2000_esp32, alert_task_semaphore, semGiven,
                   twai_state, aborted, self, op, task, nInstall, nStart,
                   nTaskCreate, nTimerCreate, openedTrue, atCall, tx_queue, args,
                   message, drvVars, restVars>>

\* memset(&message, 0, ...); extd = 1; identifier = id; data_length_code = len;
\* ss = 0; memcpy(message.data, buf, len): len bytes are written from the
\* start of the 8-byte data field, whatever len is.
BuildMessage(id, len) ==
    [extd |-> 1, identifier |-> id, data_length_code |-> len, dlc_non_comp |-> 0,
     data |-> BufBytes(Min(len, TWAI_FRAME_MAX_DLC)), written |-> len]

CANSendFrame_Build(t) ==
    /\ Running(t) /\ pc[t] = "s154"
    /\ message' = [message EXCEPT ![t] = BuildMessage(args[t].id, args[t].len)]
    /\ Goto(t, "s163")
    /\ UNCHANGED <<IsOpen, CanInUse, pNMEA2000_esp32, alert_task_semaphore, semGiven,
                   twai_state, aborted, self, op, ret, task, nInstall, nStart,
                   nTaskCreate, nTimerCreate, openedTrue, atCall, tx_queue, args,
                   sendHist, drvVars, restVars>>

\* the same memcpy when len > 8: the bytes written past message.data land on
\* the caller's stack frame; the build decides what they hit, and the process
\* may crash instead of going on.
CANSendFrame_BuildOverrun(t) ==
    /\ Running(t) /\ pc[t] = "s154"
    /\ args[t].len > TWAI_FRAME_MAX_DLC
    /\ message' = [message EXCEPT ![t] = BuildMessage(args[t].id, args[t].len)]
    /\ aborted' = TRUE
    /\ UNCHANGED <<IsOpen, CanInUse, pNMEA2000_esp32, alert_task_semaphore, semGiven,
                   twai_state, pc, self, op, ret, task, nInstall, nStart,
                   nTaskCreate, nTimerCreate, openedTrue, atCall, tx_queue, args,
                   sendHist, drvVars, restVars>>

twai_transmit_ZeroTicks(msg, wait_sent) ==
    IF msg.data_length_code > TWAI_FRAME_MAX_DLC /\ msg.dlc_non_comp = 0
      THEN "ESP_ERR_INVALID_ARG"
    ELSE IF twai_state # "RUNNING" THEN "ESP_ERR_INVALID_STATE"
    ELSE IF Len(tx_queue) < TxQueueLen THEN "ESP_OK"
    ELSE "ESP_ERR_TIMEOUT"

\* esp_err_t res = twai_transmit(&message, wait_sent ? portMAX_DELAY : 0),
\* as the driver answers it on entry: "BLOCK" stands for waiting in the
\* driver for a free slot (portMAX_DELAY never times out).
twai_transmit(msg, wait_sent) ==
    IF msg.data_length_code > TWAI_FRAME_MAX_DLC /\ msg.dlc_non_comp = 0
      THEN "ESP_ERR_INVALID_ARG"
    ELSE IF twai_state # "RUNNING" THEN "ESP_ERR_INVALID_STATE"
    ELSE IF Len(tx_queue) < TxQueueLen THEN "ESP_OK"
    ELSE IF wait_sent THEN "BLOCK"
    ELSE "ESP_ERR_TIMEOUT"

\* the frame the driver queues for a message
QueuedFrame(msg) == [extd |-> msg.extd, identifier |-> msg.identifier,
                     data_length_code |-> msg.data_length_code,
                     dlc_non_comp |-> msg.dlc_non_comp, data |-> msg.data]

CANSendFrame_Transmit_AnyResult(t) ==
    /\ Running(t) /\ pc[t] = "s163"
    /\ LET res == twai_transmit(message[t], args[t].wait_sent)
           seen == [sendHist[t] EXCEPT !.full = Len(tx_queue) >= TxQueueLen,
                                       !.running = twai_state = "RUNNING",
                                       !.res = res]
       IN  CASE res = "ESP_OK" ->
                  /\ tx_queue' = Append(tx_queue, QueuedFrame(message[t]))
                  /\ sendHist' = [sendHist EXCEPT ![t] =
                                    [seen EXCEPT !.sent = message[t],
                                                 !.queued = @ + 1]]
                  /\ Goto(t, "s170")
                  /\ UNCHANGED ret
             [] res = "BLOCK" ->
                  /\ sendHist' = [sendHist EXCEPT ![t] =
                                    [seen EXCEPT !.blocked = TRUE]]
                  /\ Goto(t, "s163w")
                  /\ UNCHANGED <<tx_queue, ret>>
             [] OTHER ->
                  /\ sendHist' = [sendHist EXCEPT ![t] = seen]
                  /\ Goto(t, "s170")
                  /\ UNCHANGED <<tx_queue, ret>>
    /\ UNCHANGED <<IsOpen, CanInUse, pNMEA2000_esp32, alert_task_semaphore, semGiven,
                   twai_state, aborted, self, op, task, nInstall, nStart,
                   nTaskCreate, nTimerCreate, openedTrue, atCall, args, message,
                   drvVars, restVars>>

\* res == ESP_OK: on to the statistics; otherwise log and return false
CANSendFrame_Transmit(t) ==
    /\ Running(t) /\ pc[t] = "s163"
    /\ LET res == twai_transmit(message[t], args[t].wait_sent)
           seen == [sendHist[t] EXCEPT !.full = Len(tx_queue) >= TxQueueLen,
                                       !.running = twai_state = "RUNNING",
                                       !.res = res]
       IN  CASE res = "ESP_OK" ->
                  /\ tx_queue' = Append(tx_queue, QueuedFrame(message[t]))
                  /\ sendHist' = [sendHist EXCEPT ![t] =
                                    [seen EXCEPT !.sent = message[t],
                                                 !.queued = @ + 1]]
                  /\ Goto(t, "s170")
                  /\ UNCHANGED ret
             [] res = "BLOCK" ->
                  /\ sendHist' = [sendHist EXCEPT ![t] =
                                    [seen EXCEPT !.blocked = TRUE]]
                  /\ Goto(t, "s163w")
                  /\ UNCHANGED <<tx_queue, ret>>
             [] OTHER ->
                  /\ sendHist' = [sendHist EXCEPT ![t] = seen]
                  /\ Return(t, "false")
                  /\ UNCHANGED tx_queue
    /\ UNCHANGED <<IsOpen, CanInUse, pNMEA2000_esp32, alert_task_semaphore, semGiven,
                   twai_state, aborted, self, op, task, nInstall, nStart,
                   nTaskCreate, nTimerCreate, openedTrue, atCall, args, message,
                   drvVars, restVars>>

\* the same call waking up inside the driver once a slot is free: the frame
\* is queued if the driver is still running, ESP_ERR_INVALID_STATE if not
CANSendFrame_TransmitWake(t) ==
    /\ Running(t) /\ pc[t] = "s163w"
    /\ Len(tx_queue) < TxQueueLen
    /\ IF twai_state = "RUNNING"
         THEN /\ tx_queue' = Append(tx_queue, QueuedFrame(message[t]))
              /\ sendHist' = [sendHist EXCEPT ![t].sent = message[t],
                                              ![t].queued = @ + 1,
                                              ![t].res = "ESP_OK"]
              /\ Goto(t, "s170")
              /\ UNCHANGED ret
         ELSE /\ sendHist' = [sendHist EXCEPT ![t].res = "ESP_ERR_INVALID_STATE"]
              /\ Return(t, "false")
              /\ UNCHANGED tx_queue
    /\ UNCHANGED <<IsOpen, CanInUse, pNMEA2000_esp32, alert_task_semaphore, semGiven,
                   twai_state, aborted, self, op, task, nInstall, nStart,
                   nTaskCreate, nTimerCreate, openedTrue, atCall, args, message,
                   drvVars, restVars>>

\* what the steps of a call on the statistics leave alone
callFixed == <<IsOpen, CanInUse, pNMEA2000_esp32, alert_task_semaphore, semGiven,
               twai_state, aborted, self, op, task, nInstall, nStart, nTaskCreate,
               nTimerCreate, openedTrue, atCall, txVars, drvVars, rxVars, idVars,
               atVars, rateVars, tick, tickIn>>

\* TxBits += CAN_FRAME_HEADER_BITS + len * 8: the counter is loaded, added to
\* and stored back, with nothing to keep Timer_tick out in between
CANSendFrame_TxBitsLoad(t) ==
    /\ Running(t) /\ pc[t] = "s170"
    /\ acc' = [acc EXCEPT ![t] = TxBits[self[t]]]
    /\ Goto(t, "s170w")
    /\ UNCHANGED <<callFixed, ret, counterVars, statHist>>

CANSendFrame_TxBitsStore(t) ==
    /\ Running(t) /\ pc[t] = "s170w"
    /\ TxBits' = [TxBits EXCEPT ![self[t]] =
                    acc[t] + CAN_FRAME_HEADER_BITS + args[t].len * 8]
    /\ acc' = [acc EXCEPT ![t] = 0]
    /\ Goto(t, "s171")
    /\ UNCHANGED <<callFixed, ret, RxBits, RxPackets, TxPackets, statHist>>

\* TxPackets++; return true;
CANSendFrame_TxPacketsLoad(t) ==
    /\ Running(t) /\ pc[t] = "s171"
    /\ acc' = [acc EXCEPT ![t] = TxPackets[self[t]]]
    /\ Goto(t, "s171w")
    /\ UNCHANGED <<callFixed, ret, counterVars, statHist>>

CANSendFrame_TxPacketsStore(t) ==
    /\ Running(t) /\ pc[t] = "s171w"
    /\ TxPackets' = [TxPackets EXCEPT ![self[t]] = acc[t] + 1]
    /\ acc' = [acc EXCEPT ![t] = 0]
    /\ statHist' = [statHist EXCEPT
                      !.sendTrue = @ + 1,
                      !.bitsSent = @ + CAN_FRAME_HEADER_BITS + args[t].len * 8]
    /\ Return(t, "true")
    /\ UNCHANGED <<callFixed, RxBits, RxPackets, TxBits>>

\* lines 170-174 of a call whose frame was queued
CANSendFrame_Statistics(t) ==
    \/ CANSendFrame_TxBitsLoad(t)
    \/ CANSendFrame_TxBitsStore(t)
    \/ CANSendFrame_TxPacketsLoad(t)
    \/ CANSendFrame_TxPacketsStore(t)

\* CANSendFrame called with frames of eight data bytes only
CANSendFrame_Full(t) ==
    \/ \E i \in Instances, id \in SendIds, w \in BOOLEAN :
          CANSendFrame_Call(t, i, id, TWAI_FRAME_MAX_DLC, w)
    \/ CANSendFrame_Status(t)
    \/ CANSendFrame_Build(t)
    \/ CANSendFrame_Transmit(t)
    \/ CANSendFrame_TransmitWake(t)
    \/ CANSendFrame_TxBitsLoad(t)
    \/ CANSendFrame_TxBitsStore(t)
    \/ CANSendFrame_TxPacketsLoad(t)
    \/ CANSendFrame_TxPacketsStore(t)

CANSendFrame(t) ==
    \/ \E i \in Instances, id \in SendIds, len \in SendLens, w \in BOOLEAN :
          CANSendFrame_Call(t, i, id, len, w)
    \/ CANSendFrame_Status(t)
    \/ CANSendFrame_Build(t)
    \/ CANSendFrame_BuildOverrun(t)
    \/ CANSendFrame_Transmit(t)
    \/ CANSendFrame_TransmitWake(t)
    \/ CANSendFrame_TxBitsLoad(t)
    \/ CANSendFrame_TxBitsStore(t)
    \/ CANSendFrame_TxPacketsLoad(t)
    \/ CANSendFrame_TxPacketsStore(t)

\* ------------------------------------------------------------- CANGetFrame
\* the payload a frame of n bytes with identifier id carries on the bus
WireData(id, n) == [k \in 1..n |-> (id + 16 * k) % 256]

WireFrame(extd, id, n) ==
    [extd |-> extd, identifier |-> id, data_length_code |-> n,
     dlc_non_comp |-> 0, data |-> WireData(id, n), written |-> n]

\* the frames other nodes send: 29-bit and 11-bit identifiers, 0 to 8 bytes
RxFrames == {WireFrame(1, 419356416, 8), WireFrame(1, 419356416, 2),
             WireFrame(1, 167248130, 0), WireFrame(1, 167248130, 8),
             WireFrame(0, 291, 2), WireFrame(0, 291, 8)}

\* auto res = twai_receive(&message, receive_wait_ticks), as the driver
\* answers it: a frame when one is queued within the wait, a timeout if not
twai_receive ==
    IF twai_state = "UNINSTALLED" THEN "ESP_ERR_INVALID_STATE"
    ELSE IF rx_queue # <<>> THEN "ESP_OK"
    ELSE "ESP_ERR_TIMEOUT"

\* memcpy(buf, data, n): the first n bytes of buf are replaced
memcpy(buf, data, n) ==
    [k \in 1..Len(buf) |-> IF k <= n THEN data[k] ELSE buf[k]]

CANGetFrame_Result_EarlyWrite(res, msg, o) ==
    IF res = "ESP_OK"
      THEN [ret |-> BoolStr(msg.extd = 1),
            out |-> [id |-> msg.identifier, len |-> msg.data_length_code,
                     buf |-> memcpy(o.buf, msg.data, msg.data_length_code)]]
      ELSE [ret |-> "false", out |-> o]

CANGetFrame_Result_NoExtdTest(res, msg, o) ==
    IF res = "ESP_OK"
      THEN [ret |-> "true",
            out |-> [id |-> msg.identifier, len |-> msg.data_length_code,
                     buf |-> memcpy(o.buf, msg.data, msg.data_length_code)]]
      ELSE [ret |-> "false", out |-> o]

\* what CANGetFrame returns and leaves in the caller's id, len and buf (o)
\* for the result res and the message of twai_receive
CANGetFrame_Result(res, msg, o) ==
    IF res = "ESP_OK"
      THEN IF msg.extd = 1
             THEN [ret |-> "true",
                   out |-> [id |-> msg.identifier, len |-> msg.data_length_code,
                            buf |-> memcpy(o.buf, msg.data, msg.data_length_code)]]
             ELSE [ret |-> "false", out |-> o]
      ELSE [ret |-> "false", out |-> o]

\* bool CANGetFrame(id, len, buf), which the base library calls on an
\* instance it has opened, up to the statistics:
\* twai_receive, the test of extd and the writes of id, len and buf
CANGetFrame_Receive(t, i) ==
    /\ Running(t) /\ pc[t] = "idle"
    /\ i \in openedTrue
    /\ LET res == twai_receive
           msg == IF res = "ESP_OK" THEN Head(rx_queue) ELSE NoMessage
           r == CANGetFrame_Result(res, msg, out)
       IN  /\ rx_queue' = IF res = "ESP_OK" THEN Tail(rx_queue) ELSE rx_queue
           /\ out' = r.out
           /\ IF r.ret = "true"
                 THEN /\ Goto(t, "g208")
                      /\ ret' = [ret EXCEPT ![t] = "none"]
                 ELSE /\ ret' = [ret EXCEPT ![t] = "false"]
                      /\ UNCHANGED pc
           /\ getHist' = [before |-> out, empty |-> rx_queue = <<>>,
                          res |-> res, frame |-> msg]
           /\ delivered' = IF r.ret = "true"
                             THEN Append(delivered,
                                         <<r.out.id, r.out.len,
                                           SubSeq(r.out.buf, 1, r.out.len)>>)
                             ELSE delivered
    /\ op' = [op EXCEPT ![t] = "get"]
    /\ self' = [self EXCEPT ![t] = i]
    /\ UNCHANGED <<IsOpen, CanInUse, pNMEA2000_esp32, alert_task_semaphore, semGiven,
                   twai_state, aborted, task, nInstall, nStart,
                   nTaskCreate, nTimerCreate, openedTrue, atCall, txVars,
                   drvVars, arrived, idVars, atVars, statVars>>

\* RxBits += CAN_FRAME_HEADER_BITS + message.data_length_code * 8: loaded,
\* added to and stored back like TxBits
CANGetFrame_RxBitsLoad(t) ==
    /\ Running(t) /\ pc[t] = "g208"
    /\ acc' = [acc EXCEPT ![t] = RxBits[self[t]]]
    /\ Goto(t, "g208w")
    /\ UNCHANGED <<callFixed, ret, counterVars, statHist>>

CANGetFrame_RxBitsStore(t) ==
    /\ Running(t) /\ pc[t] = "g208w"
    /\ RxBits' = [RxBits EXCEPT ![self[t]] =
                    acc[t] + CAN_FRAME_HEADER_BITS
                           + getHist.frame.data_length_code * 8]
    /\ acc' = [acc EXCEPT ![t] = 0]
    /\ Goto(t, "g209")
    /\ UNCHANGED <<callFixed, ret, RxPackets, TxBits, TxPackets, statHist>>

\* RxPackets++; return true;
CANGetFrame_RxPacketsLoad(t) ==
    /\ Running(t) /\ pc[t] = "g209"
    /\ acc' = [acc EXCEPT ![t] = RxPackets[self[t]]]
    /\ Goto(t, "g209w")
    /\ UNCHANGED <<callFixed, ret, counterVars, statHist>>

CANGetFrame_RxPacketsStore(t) ==
    /\ Running(t) /\ pc[t] = "g209w"
    /\ RxPackets' = [RxPackets EXCEPT ![self[t]] = acc[t] + 1]
    /\ acc' = [acc EXCEPT ![t] = 0]
    /\ statHist' = [statHist EXCEPT
                      !.getTrue = @ + 1,
                      !.bitsGot = @ + CAN_FRAME_HEADER_BITS
                                    + getHist.frame.data_length_code * 8]
    /\ Return(t, "true")
    /\ UNCHANGED <<callFixed, RxBits, TxBits, TxPackets>>

CANGetFrame(t) ==
    \/ \E i \in Instances : CANGetFrame_Receive(t, i)
    \/ CANGetFrame_RxBitsLoad(t)
    \/ CANGetFrame_RxBitsStore(t)
    \/ CANGetFrame_RxPacketsLoad(t)
    \/ CANGetFrame_RxPacketsStore(t)

\* the controller has received a frame and the driver has queued it
FrameArrives(f) ==
    /\ ~aborted /\ twai_state = "RUNNING"
    /\ Len(rx_queue) < RxQueueLen /\ Len(arrived) < MaxArrivals
    /\ rx_queue' = Append(rx_queue, f)
    /\ arrived' = Append(arrived, f)
    /\ UNCHANGED <<openVars, txVars, drvVars, out, getHist, delivered, idVars,
                   atVars, statVars>>

\* -------------------------------------------------------------- canIdToN2k
RECURSIVE Pow2(_)
Pow2(n) == IF n = 0 THEN 1 ELSE 2 * Pow2(n - 1)

\* x >> n and x << n on unsigned long, and the cast (unsigned char)x; the
\* values shifted left are one byte or one bit, by at most 16: nothing wraps
Shr(x, n) == x \div Pow2(n)
Shl(x, n) == x * Pow2(n)
U8(x) == x % 256

RECURSIVE BitAnd(_, _)
BitAnd(x, y) ==
    IF x = 0 \/ y = 0 THEN 0
    ELSE (IF x % 2 = 1 /\ y % 2 = 1 THEN 1 ELSE 0) + 2 * BitAnd(x \div 2, y \div 2)

RECURSIVE BitOr(_, _)
BitOr(x, y) ==
    IF x = 0 THEN y
    ELSE IF y = 0 THEN x
    ELSE (IF x % 2 = 1 \/ y % 2 = 1 THEN 1 ELSE 0) + 2 * BitOr(x \div 2, y \div 2)

canIdToN2k_Pdu1Inclusive(id) ==
    LET CanIdPF == U8(Shr(id, 16))
        CanIdPS == U8(Shr(id, 8))
        CanIdDP == BitAnd(U8(Shr(id, 24)), 1)
        src == Shr(U8(id), 0)
        prio == U8(BitAnd(Shr(id, 26), 7))
    IN  IF CanIdPF <= 240
          THEN [prio |-> prio, src |-> src, dst |-> CanIdPS,
                pgn |-> BitOr(Shl(CanIdDP, 16), Shl(CanIdPF, 8))]
          ELSE [prio |-> prio, src |-> src, dst |-> 255,
                pgn |-> BitOr(BitOr(Shl(CanIdDP, 16), Shl(CanIdPF, 8)), CanIdPS)]

\* void canIdToN2k(id, prio, pgn, src, dst): the four values it writes
canIdToN2k(id) ==
    LET CanIdPF == U8(Shr(id, 16))
        CanIdPS == U8(Shr(id, 8))
        CanIdDP == BitAnd(U8(Shr(id, 24)), 1)
        src == Shr(U8(id), 0)
        prio == U8(BitAnd(Shr(id, 26), 7))
    IN  IF CanIdPF < 240
          THEN [prio |-> prio, src |-> src, dst |-> CanIdPS,
                pgn |-> BitOr(Shl(CanIdDP, 16), Shl(CanIdPF, 8))]
          ELSE [prio |-> prio, src |-> src, dst |-> 255,
                pgn |-> BitOr(BitOr(Shl(CanIdDP, 16), Shl(CanIdPF, 8)), CanIdPS)]

\* 29-bit identifiers: priority, reserved bit, data page, PF, PS, source
IdSamples ==
    {p * Pow2(26) + r * Pow2(25) + dp * Pow2(24) + pf * Pow2(16) + ps * Pow2(8) + sa :
        p \in {0, 6, 7}, r \in {0, 1}, dp \in {0, 1},
        pf \in {0, 239, 240, 254, 255}, ps \in {0, 223, 255}, sa \in {0, 1, 255}}

\* the logging of CANSendFrame and CANGetFrame calls canIdToN2k(id, ...)
Decode ==
    /\ idOut = NoFields
    /\ idOut' = canIdToN2k(idIn)
    /\ UNCHANGED <<openVars, drvVars, txVars, rxVars, idIn, atVars, statVars>>

\* -------------------------------------------------------------- Timer_tick
\* The decay is computed in double: the unsigned fields convert exactly,
\* 0.05 and 0.95 are the doubles nearest to them, each product and the sum
\* are rounded to 53 significant bits (to nearest, ties to even), and the
\* cast to unsigned long drops the fraction.  Doubles are held here as whole
\* multiples of 2^-57 in five 16-bit limbs, lowest first; fields up to 2047
\* fit.
LimbBase == 65536

\* the number of bits of v
RECURSIVE Bits(_)
Bits(v) == IF v = 0 THEN 0 ELSE 1 + Bits(v \div 2)

\* X * n for n < 4096, and X + Y, on limbs
BigMul(X, n) ==
    LET t1 == X[1] * n
        t2 == X[2] * n + t1 \div LimbBase
        t3 == X[3] * n + t2 \div LimbBase
        t4 == X[4] * n + t3 \div LimbBase
        t5 == X[5] * n + t4 \div LimbBase
    IN  <<t1 % LimbBase, t2 % LimbBase, t3 % LimbBase, t4 % LimbBase, t5>>

BigAdd(X, Y) ==
    LET t1 == X[1] + Y[1]
        t2 == X[2] + Y[2] + t1 \div LimbBase
        t3 == X[3] + Y[3] + t2 \div LimbBase
        t4 == X[4] + Y[4] + t3 \div LimbBase
        t5 == X[5] + Y[5] + t4 \div LimbBase
    IN  <<t1 % LimbBase, t2 % LimbBase, t3 % LimbBase, t4 % LimbBase, t5>>

\* the number of significant bits of X
BitLen(X) ==
    IF X[5] > 0 THEN 64 + Bits(X[5])
    ELSE IF X[4] > 0 THEN 48 + Bits(X[4])
    ELSE IF X[3] > 0 THEN 32 + Bits(X[3])
    ELSE IF X[2] > 0 THEN 16 + Bits(X[2])
    ELSE Bits(X[1])

\* X rounded to 53 significant bits, to nearest and ties to even
Round53(X) ==
    IF BitLen(X) <= 53 THEN X
    ELSE LET P == Pow2(BitLen(X) - 53)
             q == <<X[1] \div P + (X[2] % P) * (LimbBase \div P),
                    X[2] \div P + (X[3] % P) * (LimbBase \div P),
                    X[3] \div P + (X[4] % P) * (LimbBase \div P),
                    X[4] \div P + (X[5] % P) * (LimbBase \div P),
                    X[5] \div P>>
             rem == X[1] % P
             up == 2 * rem > P \/ (2 * rem = P /\ q[1] % 2 = 1)
             n == IF up THEN BigAdd(q, <<1, 0, 0, 0, 0>>) ELSE q
         IN  BigMul(n, P)

\* the doubles 0.05 = 0x1999999999999A * 2^-57 and
\* 0.95 = 0x1E666666666666 * 2^-53
M05 == <<39322, 39321, 39321, 25, 0>>
M95 == <<26208, 26214, 26214, 486, 0>>

\* the decay expression with the conversion rounding to nearest (not the code)
Decay_RoundToNearest(r, c) == (r + 19 * c + 10) \div 20

\* (unsigned long)(r * 0.05 + c * 0.95)
Decay(r, c) ==
    LET s == Round53(BigAdd(Round53(BigMul(M05, r)), Round53(BigMul(M95, c))))
    IN  s[4] \div 512 + s[5] * 128

\* what Timer_tick leaves alone besides the statistics fields
tickFixed == <<openVars, txVars, drvVars, rxVars, idVars, atVars, acc>>

\* the periodic timer calls Timer_tick(pThis) on the esp_timer task:
\* pThis->RxPacketsPerSecond = (unsigned long)(... * 0.05 + pThis->RxPackets * 0.95);
Timer_tick_RxPacketsRate(i) ==
    /\ ~aborted /\ tick[i] = "idle"
    /\ statHist.ticks < MaxTicks
    /\ tickIn' = [tickIn EXCEPT ![i] =
                    [RxPackets |-> RxPackets[i],
                     RxPacketsPerSecond |-> RxPacketsPerSecond[i],
                     RxBits |-> RxBits[i], RxBitsPerSeconds |-> RxBitsPerSeconds[i],
                     TxPackets |-> TxPackets[i],
                     TxPacketsPerSecond |-> TxPacketsPerSecond[i],
                     TxBits |-> TxBits[i], TxBitsPerSecond |-> TxBitsPerSecond[i]]]
    /\ RxPacketsPerSecond' = [RxPacketsPerSecond EXCEPT ![i] =
                                Decay(RxPacketsPerSecond[i], RxPackets[i])]
    /\ statHist' = [statHist EXCEPT !.fedRxPackets = @ + RxPackets[i],
                                    !.ticks = @ + 1]
    /\ tick' = [tick EXCEPT ![i] = "k229"]
    /\ UNCHANGED <<tickFixed, counterVars, RxBitsPerSeconds, TxBitsPerSecond,
                   TxPacketsPerSecond>>

\* pThis->RxPackets = 0;
Timer_tick_RxPacketsZero(i) ==
    /\ ~aborted /\ tick[i] = "k229"
    /\ RxPackets' = [RxPackets EXCEPT ![i] = 0]
    /\ tick' = [tick EXCEPT ![i] = "k231"]
    /\ UNCHANGED <<tickFixed, RxBits, TxBits, TxPackets, rateVars, statHist, tickIn>>

\* pThis->RxBitsPerSeconds = (unsigned long)(... * 0.05 + pThis->RxBits * 0.95);
Timer_tick_RxBitsRate(i) ==
    /\ ~aborted /\ tick[i] = "k231"
    /\ RxBitsPerSeconds' = [RxBitsPerSeconds EXCEPT ![i] =
                              Decay(RxBitsPerSeconds[i], RxBits[i])]
    /\ statHist' = [statHist EXCEPT !.fedRxBits = @ + RxBits[i]]
    /\ tick' = [tick EXCEPT ![i] = "k232"]
    /\ UNCHANGED <<tickFixed, counterVars, RxPacketsPerSecond, TxBitsPerSecond,
                   TxPacketsPerSecond, tickIn>>

\* pThis->RxBits = 0;
Timer_tick_RxBitsZero(i) ==
    /\ ~aborted /\ tick[i] = "k232"
    /\ RxBits' = [RxBits EXCEPT ![i] = 0]
    /\ tick' = [tick EXCEPT ![i] = "k234"]
    /\ UNCHANGED <<tickFixed, RxPackets, TxBits, TxPackets, rateVars, statHist, tickIn>>

\* pThis->TxPacketsPerSecond = (unsigned long)(... * 0.05 + pThis->TxPackets * 0.95);
Timer_tick_TxPacketsRate(i) ==
    /\ ~aborted /\ tick[i] = "k234"
    /\ TxPacketsPerSecond' = [TxPacketsPerSecond EXCEPT ![i] =
                                Decay(TxPacketsPerSecond[i], TxPackets[i])]
    /\ statHist' = [statHist EXCEPT !.fedTxPackets = @ + TxPackets[i]]
    /\ tick' = [tick EXCEPT ![i] = "k235"]
    /\ UNCHANGED <<tickFixed, counterVars, RxBitsPerSeconds, RxPacketsPerSecond,
                   TxBitsPerSecond, tickIn>>

\* pThis->TxPackets = 0;
Timer_tick_TxPacketsZero(i) ==
    /\ ~aborted /\ tick[i] = "k235"
    /\ TxPackets' = [TxPackets EXCEPT ![i] = 0]
    /\ tick' = [tick EXCEPT ![i] = "k237"]
    /\ UNCHANGED <<tickFixed, RxBits, RxPackets, TxBits, rateVars, statHist, tickIn>>

\* pThis->TxBitsPerSecond = (unsigned long)(... * 0.05 + pThis->TxBits * 0.95);
Timer_tick_TxBitsRate(i) ==
    /\ ~aborted /\ tick[i] = "k237"
    /\ TxBitsPerSecond' = [TxBitsPerSecond EXCEPT ![i] =
                             Decay(TxBitsPerSecond[i], TxBits[i])]
    /\ statHist' = [statHist EXCEPT !.fedTxBits = @ + TxBits[i]]
    /\ tick' = [tick EXCEPT ![i] = "k238"]
    /\ UNCHANGED <<tickFixed, counterVars, RxBitsPerSeconds, RxPacketsPerSecond,
                   TxPacketsPerSecond, tickIn>>

\* pThis->TxBits = 0; and the callback returns
Timer_tick_TxBitsZero(i) ==
    /\ ~aborted /\ tick[i] = "k238"
    /\ TxBits' = [TxBits EXCEPT ![i] = 0]
    /\ tick' = [tick EXCEPT ![i] = "idle"]
    /\ tickIn' = [tickIn EXCEPT ![i] = NoTickIn]
    /\ UNCHANGED <<tickFixed, RxBits, RxPackets, TxPackets, rateVars, statHist>>

Timer_tick(i) ==
    \/ Timer_tick_RxPacketsRate(i)
    \/ Timer_tick_RxPacketsZero(i)
    \/ Timer_tick_RxBitsRate(i)
    \/ Timer_tick_RxBitsZero(i)
    \/ Timer_tick_TxPacketsRate(i)
    \/ Timer_tick_TxPacketsZero(i)
    \/ Timer_tick_TxBitsRate(i)
    \/ Timer_tick_TxBitsZero(i)

\* -------------------------------------------------------------- alert_task
\* void SetAlertsCallback(alerts_cb_t cb) {alerts_callback = cb;}
SetAlertsCallback(t, cb) ==
    /\ Running(t) /\ pc[t] = "idle"
    /\ alerts_callback' = cb
    /\ UNCHANGED <<openVars, drvVars, txVars, rxVars, idVars, alerts, cbLoaded,
                   iter, lastRead, statVars>>

\* one thing the task did for the alerts it read
Did(what) == [ev |-> what, cb |-> "null", alerts |-> {}, is_error |-> FALSE]

IsErrorArg_AnyAlert(a) == a # {}

\* the bool the callback gets for its is_error parameter:
\* alerts & ERROR_ALERTS_TO_WATCH, non-zero or not
IsErrorArg(a) == (a \cap ERROR_ALERTS_TO_WATCH) # {}

\* the end of the body of while (true): alerts goes out of scope
EndOfLoop(i) ==
    /\ alerts' = [alerts EXCEPT ![i] = {}]
    /\ cbLoaded' = [cbLoaded EXCEPT ![i] = "null"]
    /\ iter' = [iter EXCEPT ![i] = <<>>]

alert_task_Take_NoWait(i) ==
    /\ ~aborted /\ task[i] = "a275"
    /\ alert_task_semaphore' = [alert_task_semaphore EXCEPT ![i] = 0]
    /\ task' = [task EXCEPT ![i] = "a280"]
    /\ UNCHANGED <<callerVars, twai_state, aborted, drvVars, tx_queue, atVars>>

\* xSemaphoreTake(pThis->alert_task_semaphore, portMAX_DELAY);
alert_task_Take(i) ==
    /\ ~aborted /\ task[i] = "a275"
    /\ alert_task_semaphore[i] = 1
    /\ alert_task_semaphore' = [alert_task_semaphore EXCEPT ![i] = 0]
    /\ task' = [task EXCEPT ![i] = "a280"]
    /\ UNCHANGED <<callerVars, twai_state, aborted, drvVars, tx_queue, atVars>>

\* what the alerts of one read are to the bus-off recovery
AlertKind(a) ==
    IF "BUS_OFF" \in a THEN "bus_off"
    ELSE IF TWAI_ALERT_BUS_RECOVERED \in a THEN "recovered"
    ELSE "other"

\* twai_read_alerts(&alerts, portMAX_DELAY): waits until an alert is raised,
\* returns the raised alerts and clears them
alert_task_Read(i) ==
    /\ ~aborted /\ task[i] = "a280"
    /\ alerts_pending # {}
    /\ alerts' = [alerts EXCEPT ![i] = alerts_pending]
    /\ alerts_pending' = {}
    /\ lastRead' = [lastRead EXCEPT ![i] = AlertKind(alerts_pending)]
    /\ task' = [task EXCEPT ![i] = "a282"]
    /\ UNCHANGED <<callerVars, alert_task_semaphore, twai_state, aborted,
                   alerts_enabled, tx_queue, alerts_callback, cbLoaded, iter>>

\* if (pThis->alerts_callback != nullptr)
alert_task_Test(i) ==
    /\ UNCHANGED lastRead
    /\ ~aborted /\ task[i] = "a282"
    /\ cbLoaded' = [cbLoaded EXCEPT ![i] = alerts_callback]
    /\ task' = [task EXCEPT ![i] = IF alerts_callback # "null" THEN "a284" ELSE "a287"]
    /\ UNCHANGED <<callerVars, alert_task_semaphore, twai_state, aborted, drvVars,
                   tx_queue, alerts_callback, alerts, iter>>

\* pThis->alerts_callback(alerts, alerts & ERROR_ALERTS_TO_WATCH): the member
\* is read without synchronisation, so the pointer called is the one the test
\* read or the one stored since; calling nullptr crashes.
alert_task_Callback(i) ==
    /\ UNCHANGED lastRead
    /\ ~aborted /\ task[i] = "a284"
    /\ \E callee \in {cbLoaded[i], alerts_callback} :
          IF callee = "null"
            THEN /\ aborted' = TRUE
                 /\ UNCHANGED <<task, iter>>
            ELSE /\ iter' = [iter EXCEPT ![i] = Append(@,
                                [ev |-> "callback", cb |-> callee,
                                 alerts |-> alerts[i],
                                 is_error |-> IsErrorArg(alerts[i])])]
                 /\ task' = [task EXCEPT ![i] = "a287"]
                 /\ UNCHANGED aborted
    /\ UNCHANGED <<callerVars, alert_task_semaphore, twai_state, drvVars, tx_queue,
                   alerts_callback, alerts, cbLoaded>>

\* the ESP_LOGE lines for ABOVE_ERR_WARN and ERR_PASS
alert_task_Log(i) ==
    /\ UNCHANGED lastRead
    /\ ~aborted /\ task[i] = "a287"
    /\ iter' = [iter EXCEPT ![i] =
                  @ \o (IF "ABOVE_ERR_WARN" \in alerts[i]
                          THEN <<Did("log_err_warn")>> ELSE <<>>)
                    \o (IF "ERR_PASS" \in alerts[i]
                          THEN <<Did("log_err_pass")>> ELSE <<>>)]
    /\ task' = [task EXCEPT ![i] = "a295"]
    /\ UNCHANGED <<callerVars, alert_task_semaphore, twai_state, aborted, drvVars,
                   tx_queue, alerts_callback, alerts, cbLoaded>>

alert_task_BusOff_WidenWatchList(i) ==
    /\ UNCHANGED lastRead
    /\ ~aborted /\ task[i] = "a295"
    /\ IF "BUS_OFF" \in alerts[i]
         THEN /\ alerts_enabled' = ALERTS_TO_WATCH \cup {TWAI_ALERT_BUS_RECOVERED}
              /\ alerts_pending' = {}
              /\ iter' = [iter EXCEPT ![i] =
                            @ \o <<Did("log_bus_off"), Did("reconfigure_recovered")>>]
              /\ task' = [task EXCEPT ![i] = "a303"]
         ELSE /\ task' = [task EXCEPT ![i] = "a305"]
              /\ UNCHANGED <<drvVars, iter>>
    /\ UNCHANGED <<callerVars, alert_task_semaphore, twai_state, aborted, tx_queue,
                   alerts_callback, alerts, cbLoaded>>

\* if (alerts & TWAI_ALERT_BUS_OFF) { log;
\*   twai_reconfigure_alerts(TWAI_ALERT_BUS_RECOVERED, nullptr); ...
\* the driver replaces the watch-list and clears the raised alerts
alert_task_BusOff(i) ==
    /\ UNCHANGED lastRead
    /\ ~aborted /\ task[i] = "a295"
    /\ IF "BUS_OFF" \in alerts[i]
         THEN /\ alerts_enabled' = {TWAI_ALERT_BUS_RECOVERED}
              /\ alerts_pending' = {}
              /\ iter' = [iter EXCEPT ![i] =
                            @ \o <<Did("log_bus_off"), Did("reconfigure_recovered")>>]
              /\ task' = [task EXCEPT ![i] = "a303"]
         ELSE /\ task' = [task EXCEPT ![i] = "a305"]
              /\ UNCHANGED <<drvVars, iter>>
    /\ UNCHANGED <<callerVars, alert_task_semaphore, twai_state, aborted, tx_queue,
                   alerts_callback, alerts, cbLoaded>>

\*   ... twai_initiate_recovery(); }: from bus-off the driver starts recovery
\* and empties its transmit queue; in any other state it refuses
alert_task_InitiateRecovery(i) ==
    /\ UNCHANGED lastRead
    /\ ~aborted /\ task[i] = "a303"
    /\ IF twai_state = "BUS_OFF"
         THEN twai_state' = "RECOVERING" /\ tx_queue' = <<>>
         ELSE UNCHANGED <<twai_state, tx_queue>>
    /\ iter' = [iter EXCEPT ![i] = Append(@, Did("initiate_recovery"))]
    /\ task' = [task EXCEPT ![i] = "a305"]
    /\ UNCHANGED <<callerVars, alert_task_semaphore, aborted, drvVars,
                   alerts_callback, alerts, cbLoaded>>

\* if (alerts & TWAI_ALERT_BUS_RECOVERED) { log; ...
alert_task_Recovered(i) ==
    /\ UNCHANGED lastRead
    /\ ~aborted /\ task[i] = "a305"
    /\ IF TWAI_ALERT_BUS_RECOVERED \in alerts[i]
         THEN /\ iter' = [iter EXCEPT ![i] = Append(@, Did("log_recovered"))]
              /\ task' = [task EXCEPT ![i] = "a311"]
              /\ UNCHANGED <<alerts, cbLoaded>>
         ELSE /\ task' = [task EXCEPT ![i] = "a280"]
              /\ EndOfLoop(i)
    /\ UNCHANGED <<callerVars, alert_task_semaphore, twai_state, aborted, drvVars,
                   tx_queue, alerts_callback>>

\*   ... if (twai_start() == ESP_OK) log; else log; ...
alert_task_Start(i) ==
    /\ UNCHANGED lastRead
    /\ ~aborted /\ task[i] = "a311"
    /\ IF twai_state = "STOPPED"
         THEN /\ twai_state' = "RUNNING"
              /\ iter' = [iter EXCEPT ![i] = Append(@, Did("start_ok"))]
         ELSE /\ iter' = [iter EXCEPT ![i] = Append(@, Did("start_failed"))]
              /\ UNCHANGED twai_state
    /\ task' = [task EXCEPT ![i] = "a321"]
    /\ UNCHANGED <<callerVars, alert_task_semaphore, aborted, drvVars, tx_queue,
                   alerts_callback, alerts, cbLoaded>>

\*   ... twai_reconfigure_alerts(ALERTS_TO_WATCH, nullptr); }
alert_task_Restore(i) ==
    /\ UNCHANGED lastRead
    /\ ~aborted /\ task[i] = "a321"
    /\ alerts_enabled' = ALERTS_TO_WATCH
    /\ alerts_pending' = {}
    /\ EndOfLoop(i)
    /\ task' = [task EXCEPT ![i] = "a280"]
    /\ UNCHANGED <<callerVars, alert_task_semaphore, twai_state, aborted, tx_queue,
                   alerts_callback>>

alert_task(i) ==
    \/ alert_task_Take(i)
    \/ alert_task_Read(i)
    \/ alert_task_Test(i)
    \/ alert_task_Callback(i)
    \/ alert_task_Log(i)
    \/ alert_task_BusOff(i)
    \/ alert_task_InitiateRecovery(i)
    \/ alert_task_Recovered(i)
    \/ alert_task_Start(i)
    \/ alert_task_Restore(i)

\* ------------------------------------------------------------- the driver
\* the controller has sent the frame at the head of the transmit queue
TxDone ==
    /\ ~aborted /\ twai_state = "RUNNING" /\ tx_queue # <<>>
    /\ tx_queue' = Tail(tx_queue)
    /\ UNCHANGED <<openVars, args, message, sendHist, drvVars, restVars>>

\* the controller's transmit error counter passes 255: bus-off
BusOff ==
    /\ ~aborted /\ twai_state = "RUNNING"
    /\ twai_state' = "BUS_OFF"
    /\ alerts_pending' = alerts_pending \cup ({"BUS_OFF"} \cap alerts_enabled)
    /\ UNCHANGED <<IsOpen, CanInUse, pNMEA2000_esp32, alert_task_semaphore, semGiven,
                   aborted, pc, self, op, ret, task, nInstall, nStart,
                   nTaskCreate, nTimerCreate, openedTrue, atCall, alerts_enabled,
                   otherVars>>

\* bus-off recovery is complete: the driver is stopped again
RecoveryDone ==
    /\ ~aborted /\ twai_state = "RECOVERING"
    /\ twai_state' = "STOPPED"
    /\ alerts_pending' = alerts_pending \cup ({TWAI_ALERT_BUS_RECOVERED} \cap alerts_enabled)
    /\ UNCHANGED <<IsOpen, CanInUse, pNMEA2000_esp32, alert_task_semaphore, semGiven,
                   aborted, pc, self, op, ret, task, nInstall, nStart,
                   nTaskCreate, nTimerCreate, openedTrue, atCall, alerts_enabled,
                   otherVars>>

\* the running driver raises an error or data alert that is on the watch-list
RaiseAlert(a) ==
    /\ ~aborted /\ twai_state = "RUNNING"
    /\ a \in alerts_enabled /\ a \notin alerts_pending
    /\ Cardinality(alerts_pending) < MaxPending
    /\ alerts_pending' = alerts_pending \cup {a}
    /\ UNCHANGED <<openVars, alerts_enabled, otherVars>>

\* ----------------------------------------------------------- specifications
\* CANOpen called from any thread, the calls interleaved statement by statement
NextConc == \E t \in Threads : CANOpen(t)
SpecConc == Init /\ [][NextConc]_vars

\* the base library's thread opens and sends; the driver transmits and may go bus-off
Next ==
    \/ CANOpen(MainThread)
    \/ CANSendFrame(MainThread)
    \/ TxDone
    \/ BusOff
Spec == Init /\ [][Next]_vars

\* the base library's thread opens and polls for frames; frames arrive
NextRx ==
    \/ CANOpen(MainThread)
    \/ CANGetFrame(MainThread)
    \/ \E f \in RxFrames : FrameArrives(f)
SpecRx == Init /\ [][NextRx]_vars

\* the base library's thread opens and registers callbacks; the alert task
\* runs; the driver raises alerts, goes bus-off and recovers
NextAlert ==
    \/ CANOpen(MainThread)
    \/ \E cb \in Callbacks : SetAlertsCallback(MainThread, cb)
    \/ \E i \in Instances : alert_task(i)
    \/ \E a \in ALERTS_TO_WATCH \ {"BUS_OFF"} : RaiseAlert(a)
    \/ BusOff
    \/ RecoveryDone
SpecAlert == Init /\ [][NextAlert]_vars

\* canIdToN2k applied to an identifier
InitId == Constructed /\ idIn \in IdSamples /\ idOut = NoFields
NextId == Decode
SpecId == InitId /\ [][NextId]_vars

\* the same, with the scheduler waking a sender that waits for a free slot
\* and running it from the return of twai_transmit to its own return
SpecLive ==
    /\ Init /\ [][Next]_vars
    /\ WF_vars(CANSendFrame_TransmitWake(MainThread))
    /\ WF_vars(CANSendFrame_Statistics(MainThread))

\* the alert task and the driver's bus-off and recovery alone, with the
\* scheduler running every alert task that can take a step
NextRecover ==
    \/ CANOpen(MainThread)
    \/ \E cb \in Callbacks : SetAlertsCallback(MainThread, cb)
    \/ \E i \in Instances : alert_task(i)
    \/ BusOff
    \/ RecoveryDone
SpecRecover ==
    Init /\ [][NextRecover]_vars /\ \A i \in Instances : WF_vars(alert_task(i))

\* the base library's thread opens and sends full frames while the alert
\* task runs; the driver transmits, goes bus-off and recovers
NextBus ==
    \/ CANOpen(MainThread)
    \/ CANSendFrame_Full(MainThread)
    \/ \E cb \in Callbacks : SetAlertsCallback(MainThread, cb)
    \/ \E i \in Instances : alert_task(i)
    \/ TxDone
    \/ BusOff
    \/ RecoveryDone
SpecBus == Init /\ [][NextBus]_vars

\* raw counts and rates the fields hold when a callback starts: packet counts,
\* sums of 52 + 8 * len, and rates earlier callbacks produced
PacketCounts == {0, 1, 3}
PacketRates == {0, 3, 20}
BitCounts == {0, 52, 116}
BitRates == {0, 49, 110}

\* the state CANOpen() leaves when it returns true for instance i
Opened(i) ==
    /\ IsOpen = [j \in Instances |-> j = i]
    /\ CanInUse = TRUE
    /\ pNMEA2000_esp32 = i
    /\ alert_task_semaphore = [j \in Instances |-> IF j = i THEN 1 ELSE 0]
    /\ twai_state = "RUNNING"
    /\ aborted = FALSE
    /\ pc = [t \in Threads |-> "idle"]
    /\ self = [t \in Threads |-> IF t = MainThread THEN i ELSE NoInstance]
    /\ op = [t \in Threads |-> IF t = MainThread THEN "open" ELSE "none"]
    /\ ret = [t \in Threads |-> IF t = MainThread THEN "true" ELSE "none"]
    /\ task = [j \in Instances |-> IF j = i THEN "a275" ELSE "none"]
    /\ nInstall = 1
    /\ nStart = 1
    /\ nTaskCreate = 1
    /\ nTimerCreate = 1
    /\ openedTrue = {i}
    /\ tx_queue = <<>>
    /\ args = [t \in Threads |-> NoArgs]
    /\ message = [t \in Threads |-> NoMessage]
    /\ sendHist = [t \in Threads |-> NoSendHist]
    /\ alerts_enabled = ALERTS_TO_WATCH
    /\ alerts_pending = {}
    /\ alerts_callback = "null"
    /\ alerts = [j \in Instances |-> {}]
    /\ cbLoaded = [j \in Instances |-> "null"]
    /\ iter = [j \in Instances |-> <<>>]
    /\ lastRead = [j \in Instances |-> "none"]
    /\ semGiven = [j \in Instances |-> IF j = i THEN 1 ELSE 0]
    /\ acc = [t \in Threads |-> 0]
    /\ tick = [j \in Instances |-> IF j = i THEN "idle" ELSE "none"]
    /\ statHist = NoStatHist
    /\ tickIn = [j \in Instances |-> NoTickIn]
    /\ rx_queue = <<>>
    /\ out = CallerOut
    /\ getHist = NoGetHist
    /\ arrived = <<>>
    /\ delivered = <<>>
    /\ atCall = [t \in Threads |->
                   [late |-> FALSE, other |-> FALSE,
                    before |-> [IsOpen |-> [j \in Instances |-> FALSE],
                                CanInUse |-> FALSE, p |-> NoInstance,
                                nInstall |-> 0, nStart |-> 0,
                                nTaskCreate |-> 0, nTimerCreate |-> 0]]]
    /\ idIn = 0 /\ idOut = NoFields

\* Timer_tick alone: instance "A" is open, the caller's thread is between
\* calls, and the eight statistics fields hold any of the sampled values
InitTick ==
    /\ Opened("A")
    /\ \E rp \in PacketCounts, rb \in BitCounts, tp \in PacketCounts, tb \in BitCounts :
          /\ RxPackets = [j \in Instances |-> IF j = "A" THEN rp ELSE 0]
          /\ RxBits = [j \in Instances |-> IF j = "A" THEN rb ELSE 0]
          /\ TxPackets = [j \in Instances |-> IF j = "A" THEN tp ELSE 0]
          /\ TxBits = [j \in Instances |-> IF j = "A" THEN tb ELSE 0]
    /\ \E rp \in PacketRates, rb \in BitRates, tp \in PacketRates, tb \in BitRates :
          /\ RxPacketsPerSecond = [j \in Instances |-> IF j = "A" THEN rp ELSE 0]
          /\ RxBitsPerSeconds = [j \in Instances |-> IF j = "A" THEN rb ELSE 0]
          /\ TxPacketsPerSecond = [j \in Instances |-> IF j = "A" THEN tp ELSE 0]
          /\ TxBitsPerSecond = [j \in Instances |-> IF j = "A" THEN tb ELSE 0]
NextTick == \E i \in Instances : Timer_tick(i)
SpecTick == InitTick /\ [][NextTick]_vars

\* the base library's thread opens and sends while the statistics timer
\* fires on the esp_timer task; nothing orders the two
NextStats ==
    \/ CANOpen(MainThread)
    \/ \E i \in Instances :
          CANSendFrame_Call(MainThread, i, 419356416, TWAI_FRAME_MAX_DLC, FALSE)
    \/ CANSendFrame_Status(MainThread)
    \/ CANSendFrame_Build(MainThread)
    \/ CANSendFrame_Transmit(MainThread)
    \/ CANSendFrame_Statistics(MainThread)
    \/ \E i \in Instances : Timer_tick(i)
SpecStats == Init /\ [][NextStats]_vars

\* ------------------------------------------------------------------ claims

\* C1: a CANOpen call made on an instance on which CANOpen has already
\* returned true returns true straight from the IsOpen test and installs,
\* starts and creates nothing; the driver was installed exactly once.
C1_OpenIdempotent ==
    /\ \A t \in Threads :
         (op[t] = "open" /\ atCall[t].late) =>
            /\ pc[t] \in {"o71", "idle"}
            /\ (pc[t] = "idle" => ret[t] = "true")
            /\ OpenEffects = atCall[t].before
    /\ (openedTrue # {} => nInstall = 1)

C1_Witness ==
    \E t \in Threads : /\ op[t] = "open" /\ atCall[t].late
                       /\ pc[t] = "idle" /\ ret[t] = "true"

\* C2: a CANOpen call on an instance B, made after CANOpen has returned true
\* on another instance, returns false and leaves IsOpen of both, CanInUse,
\* pNMEA2000_esp32 and the install/start/task/timer counts as they were.
C2_SecondInstanceRejected ==
    \A t \in Threads :
       (op[t] = "open" /\ atCall[t].other /\ ~atCall[t].late) =>
          /\ pc[t] \in {"o71", "o74", "idle"}
          /\ (pc[t] = "idle" => ret[t] = "false")
          /\ OpenEffects = atCall[t].before

C2_Witness ==
    \E t \in Threads : /\ op[t] = "open" /\ atCall[t].other /\ ~atCall[t].late
                       /\ pc[t] = "idle" /\ ret[t] = "false"
                       /\ ~IsOpen[self[t]] /\ pNMEA2000_esp32 # self[t]

\* C3: with CANOpen calls interleaved statement by statement, at most one
\* instance has IsOpen = true and the driver is installed at most once.
C3_AtMostOneOpen ==
    /\ Cardinality({i \in Instances : IsOpen[i]}) <= 1
    /\ nInstall <= 1

\* C4: CANSendFrame never copies more than 8 bytes into the data field, and
\* for len > 8 the message it submits has data length 8, the first 8 bytes of
\* buf and the length-non-compliant flag, and the call does not fail when the
\* driver runs and has a free slot.
C4_LengthClamped ==
    \A t \in Threads :
       (op[t] = "send" /\ message[t].extd = 1) =>
          /\ message[t].written <= TWAI_FRAME_MAX_DLC
          /\ args[t].len > TWAI_FRAME_MAX_DLC =>
               /\ message[t].data_length_code = TWAI_FRAME_MAX_DLC
               /\ message[t].dlc_non_comp = 1
               /\ message[t].data = BufBytes(TWAI_FRAME_MAX_DLC)
               /\ (pc[t] = "idle" /\ sendHist[t].running /\ ~sendHist[t].full)
                     => ret[t] = "true"

\* C8: a failure of twai_driver_install or twai_start inside CANOpen does not
\* abort the process: CANOpen goes on to return false.
C8_OpenReportsFailure ==
    \A t \in Threads : (op[t] = "open" /\ pc[t] \in {"i104", "i107"}) => ~aborted

\* C9: a CANSendFrame call that reaches twai_transmit with wait_sent = false
\* on a running driver with a full queue returns false, never waits and queues
\* nothing; with wait_sent = true it returns true exactly when its frame was
\* queued and false only on a driver error, never on a timeout; and a call
\* waiting for a slot returns true once a slot is free, unless the driver
\* leaves the running state.
C9_Returned(t) == op[t] = "send" /\ pc[t] = "idle" /\ sendHist[t].res # "none"

C9_Safe ==
    \A t \in Threads :
       /\ (op[t] = "send" /\ ~args[t].wait_sent) => pc[t] # "s163w"
       /\ C9_Returned(t) =>
            /\ (~args[t].wait_sent /\ sendHist[t].running /\ sendHist[t].full
                  /\ message[t].data_length_code <= TWAI_FRAME_MAX_DLC) =>
                  /\ ret[t] = "false"
                  /\ ~sendHist[t].blocked
                  /\ sendHist[t].sent = NoMessage
            /\ args[t].wait_sent =>
                  /\ sendHist[t].res # "ESP_ERR_TIMEOUT"
                  /\ ret[t] = "true" <=> sendHist[t].res = "ESP_OK"
                  /\ ret[t] = "true" <=> sendHist[t].sent = message[t]

C9_WaitSelector ==
    /\ []C9_Safe
    /\ \A t \in {MainThread} :
          (pc[t] = "s163w" /\ Len(tx_queue) < TxQueueLen)
             ~> ((pc[t] = "idle" /\ ret[t] = "true") \/ twai_state # "RUNNING")

C9_Witness ==
    \E t \in Threads : /\ C9_Returned(t) /\ args[t].wait_sent
                       /\ sendHist[t].blocked /\ ret[t] = "true"

\* C5: a CANGetFrame call made while the receive queue is empty returns
\* false; every call that returns false leaves the caller's id, len and buf
\* as they were; every call that returns true sets id, len and the first len
\* bytes of buf to those of the frame it took from the queue.
C5_GetFrameOutputs ==
    \A t \in Threads :
       op[t] = "get" =>
          /\ getHist.empty => ret[t] = "false"
          /\ ret[t] = "false" => out = getHist.before
          /\ ret[t] = "true" =>
               /\ getHist.res = "ESP_OK"
               /\ out.id = getHist.frame.identifier
               /\ out.len = getHist.frame.data_length_code
               /\ SubSeq(out.buf, 1, out.len) = getHist.frame.data

C5_Witness ==
    \E t \in Threads : /\ op[t] = "get" /\ ret[t] = "false" /\ getHist.empty
                       /\ twai_state = "RUNNING"
                       /\ out.len = 2 /\ out.id = 419356416

\* C6: the receive queue is what is left of the arrived frames after one
\* frame per successful twai_receive; a call that takes an 11-bit frame
\* returns false; and the (id, len, payload) values returned with true are
\* the extended frames among those taken, in arrival order.
IsExtended(f) == f.extd = 1
Taken == SubSeq(arrived, 1, Len(arrived) - Len(rx_queue))
Payloads(s) == [k \in 1..Len(s) |->
                  <<s[k].identifier, s[k].data_length_code, s[k].data>>]

C6_NoLossNoReorder ==
    /\ Len(rx_queue) <= Len(arrived)
    /\ rx_queue = SubSeq(arrived, Len(arrived) - Len(rx_queue) + 1, Len(arrived))
    /\ delivered = Payloads(SelectSeq(Taken, IsExtended))
    /\ \A t \in Threads :
          (op[t] = "get" /\ getHist.res = "ESP_OK" /\ getHist.frame.extd = 0)
             => ret[t] = "false"

C6_Witness ==
    /\ Len(delivered) = 2 /\ delivered[1] # delivered[2]
    /\ Len(Taken) = 3 /\ Taken[2].extd = 0

\* C7: canIdToN2k gives priority = bits 26..28 and source = bits 0..7; with
\* PF = bits 16..23, PS = bits 8..15, DP = bit 24: destination PS and
\* pgn DP*65536 + PF*256 when PF < 240, destination 255 and
\* pgn DP*65536 + PF*256 + PS when PF >= 240; 0x18FEDF00 gives priority 6,
\* pgn 0xFEDF, source 0, destination 0xFF.
C7_Fields(id) ==
    LET PF == (id \div 65536) % 256
        PS == (id \div 256) % 256
        DP == (id \div 16777216) % 2
    IN  [prio |-> (id \div 67108864) % 8,
         src |-> id % 256,
         dst |-> IF PF < 240 THEN PS ELSE 255,
         pgn |-> IF PF < 240 THEN DP * 65536 + PF * 256
                 ELSE DP * 65536 + PF * 256 + PS]

C7_IdDecomposition ==
    idOut # NoFields =>
       /\ idOut = C7_Fields(idIn)
       /\ idOut.prio \in 0..7
       /\ idIn = 419356416 =>
            idOut = [prio |-> 6, pgn |-> 65247, src |-> 0, dst |-> 255]

C7_Witness ==
    /\ idIn = 419356416
    /\ idOut = [prio |-> 6, pgn |-> 65247, src |-> 0, dst |-> 255]

\* C10: once the alert task is past its callback call for the alerts it read:
\* if a callback was registered, the first thing the task did is one call of
\* a registered callback with exactly those alerts, with is_error true iff
\* they hold ABOVE_ERR_WARN, ERR_PASS, BUS_OFF or RX_FIFO_OVERRUN, and it
\* made no second call; registered or not, the logging and the bus-off
\* recovery for those alerts follow.
C10_Events(i) == {iter[i][k].ev : k \in 1..Len(iter[i])}

C10_CallbackFirst ==
    \A i \in Instances :
       task[i] \in {"a287", "a295", "a303", "a305", "a311", "a321"} =>
          /\ alerts[i] # {}
          /\ cbLoaded[i] # "null" =>
               /\ Len(iter[i]) >= 1
               /\ iter[i][1].ev = "callback"
               /\ iter[i][1].cb \in Callbacks \ {"null"}
               /\ iter[i][1].alerts = alerts[i]
               /\ iter[i][1].is_error =
                     (\E a \in {"ABOVE_ERR_WARN", "ERR_PASS", "BUS_OFF",
                                "RX_FIFO_OVERRUN"} : a \in alerts[i])
               /\ \A k \in 2..Len(iter[i]) : iter[i][k].ev # "callback"
          /\ cbLoaded[i] = "null" => "callback" \notin C10_Events(i)
          /\ task[i] # "a287" =>
               /\ "log_err_warn" \in C10_Events(i) <=> "ABOVE_ERR_WARN" \in alerts[i]
               /\ "log_err_pass" \in C10_Events(i) <=> "ERR_PASS" \in alerts[i]
          /\ task[i] \in {"a305", "a311", "a321"} =>
               ("initiate_recovery" \in C10_Events(i) <=> "BUS_OFF" \in alerts[i])

C10_Witness ==
    \E i \in Instances :
       /\ task[i] = "a311" /\ alerts[i] = {TWAI_ALERT_BUS_RECOVERED}
       /\ cbLoaded[i] = "cb"
       /\ iter[i][1].ev = "callback" /\ ~iter[i][1].is_error

\* the positions in what the task of instance i did for the alerts it read
\* at which it did e
EventAt(i, e) == {k \in 1..Len(iter[i]) : iter[i][k].ev = e}

\* the task of instance i is in the iteration of the alerts it read last and
\* has not passed the test for bus-off yet, or has not passed the restore
BeforeBusOffTest(i) == task[i] \in {"a282", "a284", "a287", "a295"}
BeforeRestoreDone(i) ==
    task[i] \in {"a282", "a284", "a287", "a295", "a305", "a311", "a321"}

\* C11: the alert task handles bus-off in a fixed order.  For alerts with
\* BUS_OFF it sets the watch-list to exactly {BUS_RECOVERED} before it
\* initiates recovery; it calls twai_start only for alerts with
\* BUS_RECOVERED, and restores ALERTS_TO_WATCH only after that call.  So the
\* watch-list of the installed driver is ALERTS_TO_WATCH or {BUS_RECOVERED},
\* and it is {BUS_RECOVERED} exactly from the reconfiguration made for a
\* bus-off alert until the restore made for the next recovered alert.
C11_RecoveryOrder ==
    /\ twai_state # "UNINSTALLED" =>
          alerts_enabled \in {ALERTS_TO_WATCH, {TWAI_ALERT_BUS_RECOVERED}}
    /\ \A i \in Instances :
          task[i] # "none" =>
            LET narrowed == alerts_enabled = {TWAI_ALERT_BUS_RECOVERED}
                started == EventAt(i, "start_ok") \cup EventAt(i, "start_failed")
            IN  /\ \A k \in EventAt(i, "initiate_recovery") :
                      \E j \in EventAt(i, "reconfigure_recovered") : j < k
                /\ task[i] = "a303" => narrowed /\ "BUS_OFF" \in alerts[i]
                /\ (task[i] = "a311" \/ started # {}) =>
                      TWAI_ALERT_BUS_RECOVERED \in alerts[i]
                /\ task[i] = "a311" => started = {}
                /\ task[i] = "a321" => started # {} /\ narrowed
                /\ narrowed <=>
                      CASE lastRead[i] = "bus_off" -> ~BeforeBusOffTest(i)
                        [] lastRead[i] = "recovered" -> BeforeRestoreDone(i)
                        [] OTHER -> FALSE

\* a bus-off has been handled to the end: the recovered alert was read, the
\* driver restarted and the watch-list restored
C11_Witness ==
    \E i \in Instances :
       /\ lastRead[i] = "recovered" /\ task[i] = "a280"
       /\ twai_state = "RUNNING" /\ alerts_enabled = ALERTS_TO_WATCH

\* C13: the alert task reads no alerts, calls no callback and starts no
\* recovery before the driver is installed and started.  Its semaphore is
\* created empty and given once, after twai_start, in CAN_init; the task
\* passes xSemaphoreTake only by taking what was given.
C13_ReadsAfterStart ==
    \A i \in Instances :
       /\ semGiven[i] <= 1
       /\ alert_task_semaphore[i] <= semGiven[i]
       /\ semGiven[i] = 1 => nInstall = 1 /\ nStart = 1
       /\ task[i] \in {"none", "a275"} =>
             alerts[i] = {} /\ iter[i] = <<>> /\ lastRead[i] = "none"
       /\ task[i] \notin {"none", "a275"} =>
             /\ semGiven[i] = 1 /\ alert_task_semaphore[i] = 0
             /\ nInstall = 1 /\ nStart = 1
             /\ twai_state # "UNINSTALLED"

\* the task has read alerts while CAN_init is still at the timer creation
C13_Witness ==
    \E i \in Instances :
       /\ task[i] = "a282" /\ alerts[i] # {}
       /\ pc[MainThread] = "i125" /\ self[MainThread] = i

\* C12: once the alert task has read the recovered alert that follows a
\* bus-off it handled, the driver is eventually running with the watch-list
\* back to ALERTS_TO_WATCH; and the task, whatever alerts it read, comes back
\* to twai_read_alerts.  (A process abort ends both obligations.)
C12_RecoveryCompletes ==
    \A i \in Instances :
       /\ (lastRead[i] = "recovered" /\ task[i] = "a282")
             ~> (\/ twai_state = "RUNNING" /\ alerts_enabled = ALERTS_TO_WATCH
                 \/ aborted)
       /\ (task[i] \notin {"none", "a275", "a280"})
             ~> (task[i] = "a280" \/ aborted)

\* C14: a CANSendFrame call whose status check finds the driver in any state
\* but running returns false from the check: it builds and submits no frame,
\* leaves TxBits and TxPackets as they were, and its step changes nothing of
\* the driver.  The driver leaves bus-off only by the alert task's
\* twai_initiate_recovery, and is restarted only by the alert task's
\* twai_start (after the one in CAN_init).
C14_NotRunningState ==
    \A t \in Threads :
       (op[t] = "send" /\ sendHist[t].state \notin {"none", "RUNNING"}) =>
          /\ pc[t] = "idle" /\ ret[t] = "false"
          /\ message[t] = NoMessage
          /\ sendHist[t].res = "none" /\ sendHist[t].queued = 0
          /\ TxBits[self[t]] = sendHist[t].TxBits
          /\ TxPackets[self[t]] = sendHist[t].TxPackets

C14_NotRunningStep ==
    /\ \A t \in Threads :
          (pc[t] = "s139" /\ pc'[t] # "s139" /\ twai_state # "RUNNING") =>
             /\ pc'[t] = "idle" /\ ret'[t] = "false"
             /\ UNCHANGED <<twai_state, tx_queue, drvVars, counterVars>>
    /\ (twai_state = "BUS_OFF" /\ twai_state' # "BUS_OFF") =>
          \E i \in Instances : task[i] = "a303" /\ task'[i] = "a305"
    /\ (twai_state = "STOPPED" /\ twai_state' # "STOPPED") =>
          \/ \E i \in Instances : task[i] = "a311" /\ task'[i] = "a321"
          \/ \E t \in Threads : pc[t] = "i107" /\ pc'[t] = "i110"

C14_NotRunning == []C14_NotRunningState /\ [][C14_NotRunningStep]_vars

\* a call made while the driver was recovering has returned
C14_Witness ==
    \E t \in Threads :
       /\ op[t] = "send" /\ pc[t] = "idle" /\ ret[t] = "false"
       /\ sendHist[t].state = "RECOVERING"

\* C15: a CANSendFrame call returns true only if twai_transmit queued its
\* frame in that call, also when the driver goes bus-off between the status
\* check and twai_transmit; a call queues at most one frame, and the frame of
\* a call that returns true is extended and carries the identifier given.
C15_TrueOnlyIfQueued ==
    \A t \in Threads :
       op[t] = "send" =>
          /\ sendHist[t].queued <= 1
          /\ (pc[t] = "idle" /\ ret[t] = "true") =>
                /\ sendHist[t].queued = 1 /\ sendHist[t].res = "ESP_OK"
                /\ sendHist[t].sent = message[t]
                /\ sendHist[t].sent.extd = 1
                /\ sendHist[t].sent.identifier = args[t].id
          /\ (pc[t] = "idle" /\ sendHist[t].state = "RUNNING"
                 /\ ~sendHist[t].running) =>
                /\ ret[t] = "false" /\ sendHist[t].queued = 0

\* the driver went bus-off between the status check and twai_transmit
C15_Witness ==
    \E t \in Threads :
       /\ op[t] = "send" /\ pc[t] = "idle" /\ ret[t] = "false"
       /\ sendHist[t].state = "RUNNING" /\ ~sendHist[t].running
       /\ sendHist[t].res = "ESP_ERR_INVALID_STATE"

\* C16: no traffic is lost from the statistics.  Whenever no call and no
\* Timer_tick is in progress, the raw counts Timer_tick has fed to the decay
\* plus the current raw counter are the number of calls that returned true
\* (packets) and the sum of 52 + 8 * len over them (bits), for both
\* directions.
C16_NoTrafficLost ==
    \A i \in Instances :
       ((\A t \in Threads : pc[t] = "idle") /\ tick[i] = "idle") =>
          /\ statHist.fedTxPackets + TxPackets[i] = statHist.sendTrue
          /\ statHist.fedTxBits + TxBits[i] = statHist.bitsSent
          /\ statHist.fedRxPackets + RxPackets[i] = statHist.getTrue
          /\ statHist.fedRxBits + RxBits[i] = statHist.bitsGot

\* position of a running callback: the number of its statements done
TickStage(i) ==
    CASE tick[i] = "k229" -> 1 [] tick[i] = "k231" -> 2 [] tick[i] = "k232" -> 3
      [] tick[i] = "k234" -> 4 [] tick[i] = "k235" -> 5 [] tick[i] = "k237" -> 6
      [] tick[i] = "k238" -> 7 [] OTHER -> 0

\* the new rate is exactly r * 0.05 + c * 0.95
DecayExact(r, c, new) == 100 * new = 5 * r + 95 * c

\* the new rate is r * 0.05 + c * 0.95 converted to an integer: the integer
\* part of (r + 19c) / 20, or one less where that quotient is a whole number
\* and the sum of the two rounded products falls just below it
DecayTruncated(r, c, new) ==
    LET q == (r + 19 * c) \div 20
    IN  /\ new \in {q, q - 1} /\ new >= 0
        /\ ((r + 19 * c) % 20 # 0 \/ c = 0) => new = q

\* while a callback runs with no caller in between: the statements done have
\* decayed their rate from the values the callback found (exactly, or as the
\* conversion has it) and zeroed their counter, a decay from a zero count
\* lowered a positive rate, and the fields of the statements not yet done are
\* as the callback found them
TickState(exact) ==
    \A i \in Instances :
       TickStage(i) > 0 =>
          LET in == tickIn[i]
              n == TickStage(i)
              Rate(new, r, c, k) ==
                  IF n >= k THEN /\ IF exact THEN DecayExact(r, c, new)
                                            ELSE DecayTruncated(r, c, new)
                                 /\ (c = 0 /\ r > 0) => new < r
                            ELSE new = r
              Count(new, c, k) == new = IF n >= k THEN 0 ELSE c
          IN  /\ Rate(RxPacketsPerSecond[i], in.RxPacketsPerSecond, in.RxPackets, 1)
              /\ Count(RxPackets[i], in.RxPackets, 2)
              /\ Rate(RxBitsPerSeconds[i], in.RxBitsPerSeconds, in.RxBits, 3)
              /\ Count(RxBits[i], in.RxBits, 4)
              /\ Rate(TxPacketsPerSecond[i], in.TxPacketsPerSecond, in.TxPackets, 5)
              /\ Count(TxPackets[i], in.TxPackets, 6)
              /\ Rate(TxBitsPerSecond[i], in.TxBitsPerSecond, in.TxBits, 7)
              /\ Count(TxBits[i], in.TxBits, 8)

\* the last statement of the callback zeroes TxBits and writes nothing else
TickLastStep ==
    \A i \in Instances :
       (tick[i] = "k238" /\ tick'[i] = "idle") =>
          /\ TxBits'[i] = 0
          /\ RxBits' = RxBits /\ RxPackets' = RxPackets /\ TxPackets' = TxPackets
          /\ UNCHANGED rateVars

C17_TickState == TickState(FALSE)

\* C17 (as the code has it): each Timer_tick, for each of the four counters
\* with raw count c and prior rate r, sets the rate to r * 0.05 + c * 0.95
\* converted to an integer by truncation (the integer part of (r + 19c) / 20,
\* or one less than it where (r + 19c) / 20 is a whole number and c > 0) and
\* then sets the raw counter to 0; a tick with c = 0 strictly decreases a
\* positive rate; each statement writes its own field only.
C17_DecayTruncated == []C17_TickState /\ [][TickLastStep]_vars

\* C17 (as stated): each Timer_tick sets each of the four rates to exactly
\* r * 0.05 + c * 0.95 and then zeroes the raw counter, a tick with c = 0
\* strictly decreases a positive rate, and the four counters are decayed
\* independently of one another.
C17_DecayExact == TickState(TRUE)

\* a callback that found 3 received packets at rate 3 (the sum 3.0 comes out
\* as 2), 116 received bits at rate 49, and no sent packets at rate 20
C17_Witness ==
    /\ tick["A"] = "k238"
    /\ tickIn["A"].RxPackets = 3 /\ tickIn["A"].RxPacketsPerSecond = 3
    /\ RxPacketsPerSecond["A"] = 2
    /\ tickIn["A"].RxBits = 116 /\ tickIn["A"].RxBitsPerSeconds = 49
    /\ RxBitsPerSeconds["A"] = 112
    /\ tickIn["A"].TxPackets = 0 /\ tickIn["A"].TxPacketsPerSecond = 20
    /\ TxPacketsPerSecond["A"] = 1
    /\ RxPackets["A"] = 0 /\ RxBits["A"] = 0 /\ TxPackets["A"] = 0

====
